---- MODULE Spec2Model ----
(***************************************************************************)
(* Model of the Red Hat Console agent wrapper (src/main.py): the bearer    *)
(* authenticator, the /v1/agents and /v1/chat handlers, the backend        *)
(* client, the inline response normalisation and the streaming emulator.   *)
(*                                                                         *)
(* Python values are modelled as follows.                                  *)
(*   - str          : a TLA+ string                                        *)
(*   - a header     : [present |-> BOOLEAN, value |-> str] (None = absent) *)
(*   - a message    : a record holding the keys the message carries        *)
(*   - a JSON value : a tagged record, see Null, Bool, Num, Str, List, Dict*)
(*                    (a dict is the sequence of its <<key, value>> pairs   *)
(*                    in insertion order)                                  *)
(***************************************************************************)
EXTENDS Integers, Sequences, FiniteSets, TLC

VARIABLES
    pc,            \* position of the request in the program
    req,           \* the inbound HTTP request being served
    thread_id,     \* chat_completion: thread_id (log correlation only)
    query,         \* chat_completion: query
    response,      \* chat_completion: response (what send_message returned)
    content,       \* chat_completion: response_content, a JSON value
    status,        \* HTTP status sent to the client (0: none yet)
    detail,        \* detail of the HTTPException raised ("" when none)
    challenge,     \* value of the WWW-Authenticate header of the reply
    body,          \* JSON object returned by the handler (NoBody when none)
    frames,        \* the frames the streaming generator has yielded so far
    gen,           \* the generator's locals: completion_id, created, error
    backendCalls,  \* the queries POSTed to the backend, in order
    stages,        \* the pipeline stages executed for this request, in order
    seen           \* what an observer recorded of an earlier request

vars == <<pc, req, thread_id, query, response, content, status, detail,
          challenge, body, frames, gen, backendCalls, stages, seen>>

(***************************************************************************)
(* Bounds of the model.                                                    *)
(***************************************************************************)
MaxMsgs == 3
MaxOptions == 2

(***************************************************************************)
(* JSON values as json.loads produces them.                                *)
(***************************************************************************)
Null == [k |-> "null"]
Bool(b) == [k |-> "bool", b |-> b]
Num(n) == [k |-> "num", n |-> n]
Str(s) == [k |-> "str", s |-> s]
List(l) == [k |-> "list", l |-> l]
Dict(d) == [k |-> "dict", d |-> d]

\* key in d, for a dict d
HasKey(d, key) == \E i \in 1..Len(d.d) : d.d[i][1] = key

\* d.get(key, default), for a dict d
Get(d, key, default) ==
    IF HasKey(d, key)
    THEN d.d[CHOOSE i \in 1..Len(d.d) : d.d[i][1] = key][2]
    ELSE default

\* variant: only None is false
Truthy_NotNone(v) == v.k # "null"

\* bool(v): Python's truth value of a JSON value
Truthy(v) ==
    CASE v.k = "null" -> FALSE
      [] v.k = "bool" -> v.b
      [] v.k = "num"  -> v.n # 0
      [] v.k = "str"  -> v.s # ""
      [] v.k = "list" -> v.l # <<>>
      [] v.k = "dict" -> v.d # <<>>

\* str(n) for a natural number n
Digit(n) == SubSeq("0123456789", n + 1, n + 1)

RECURSIVE IntStr(_)
IntStr(n) == IF n < 10 THEN Digit(n) ELSE IntStr(n \div 10) \o Digit(n % 10)

\* repr(v) and str(v) of a JSON value; the strings of the model hold no
\* quote, backslash or control character, so repr(s) is s in single quotes
RECURSIVE PyRepr(_), JoinRepr(_), JoinItems(_)
PyRepr(v) ==
    CASE v.k = "null" -> "None"
      [] v.k = "bool" -> IF v.b THEN "True" ELSE "False"
      [] v.k = "num"  -> IntStr(v.n)
      [] v.k = "str"  -> "'" \o v.s \o "'"
      [] v.k = "list" -> "[" \o JoinRepr(v.l) \o "]"
      [] v.k = "dict" -> "{" \o JoinItems(v.d) \o "}"

JoinRepr(l) ==
    IF l = <<>> THEN ""
    ELSE IF Len(l) = 1 THEN PyRepr(l[1])
    ELSE PyRepr(l[1]) \o ", " \o JoinRepr(Tail(l))

JoinItems(d) ==
    IF d = <<>> THEN ""
    ELSE LET item == "'" \o d[1][1] \o "': " \o PyRepr(d[1][2])
         IN  IF Len(d) = 1 THEN item ELSE item \o ", " \o JoinItems(Tail(d))

PyStr(v) == IF v.k = "str" THEN v.s ELSE PyRepr(v)

(***************************************************************************)
(* Configuration (main.py:147-154).  The secret is read once at start-up.  *)
(***************************************************************************)
REQUIRED_BEARER_TOKEN == "s3cret"

(***************************************************************************)
(* verify_bearer_token (main.py:159-183).  The result says whether the     *)
(* dependency returned (ok) or raised HTTPException(status, detail,        *)
(* headers = {"WWW-Authenticate": challenge}).                             *)
(***************************************************************************)
AuthError(msg) ==
    [ok |-> FALSE, status |-> 401, detail |-> msg, challenge |-> "Bearer",
     token |-> ""]

\* authorization.startswith(prefix)
StartsWith(s, prefix) ==
    Len(s) >= Len(prefix) /\ SubSeq(s, 1, Len(prefix)) = prefix

\* variant: the scheme prefix is not checked, only authorization[7:]
verify_bearer_token_AnyScheme(authorization) ==
    IF ~authorization.present \/ authorization.value = ""
    THEN AuthError("Authorization header required")
    ELSE LET token == SubSeq(authorization.value, 8, Len(authorization.value))
         IN  IF token # REQUIRED_BEARER_TOKEN
             THEN AuthError("Invalid bearer token")
             ELSE [ok |-> TRUE, status |-> 0, detail |-> "", challenge |-> "",
                   token |-> token]

\* variant: the token is compared by prefix instead of equality
verify_bearer_token_PrefixMatch(authorization) ==
    IF ~authorization.present \/ authorization.value = ""
    THEN AuthError("Authorization header required")
    ELSE IF ~StartsWith(authorization.value, "Bearer ")
    THEN AuthError("Authorization header must start with 'Bearer '")
    ELSE LET token == SubSeq(authorization.value, 8, Len(authorization.value))
         IN  IF ~StartsWith(token, REQUIRED_BEARER_TOKEN)
             THEN AuthError("Invalid bearer token")
             ELSE [ok |-> TRUE, status |-> 0, detail |-> "", challenge |-> "",
                   token |-> token]

verify_bearer_token(authorization) ==
    IF ~authorization.present \/ authorization.value = ""
    THEN AuthError("Authorization header required")
    ELSE IF ~StartsWith(authorization.value, "Bearer ")
    THEN AuthError("Authorization header must start with 'Bearer '")
    ELSE LET token == SubSeq(authorization.value, 8, Len(authorization.value))
         IN  IF token # REQUIRED_BEARER_TOKEN
             THEN AuthError("Invalid bearer token")
             ELSE [ok |-> TRUE, status |-> 0, detail |-> "", challenge |-> "",
                   token |-> token]

(***************************************************************************)
(* Query extraction of chat_completion (main.py:235-240).  msg["role"] and *)
(* user_messages[-1]["content"] raise KeyError on a message that lacks the *)
(* key; the exception is not caught by the handler.                        *)
(***************************************************************************)
IsUser(msg) == msg.role = "user"

\* [msg for msg in request.messages if msg["role"] == "user"], defined when
\* every message carries the key "role"
UserMessages(messages) == SelectSeq(messages, IsUser)

\* variant: user_messages[0] instead of user_messages[-1]
ExtractQuery_First(messages) ==
    IF \E i \in 1..Len(messages) : "role" \notin DOMAIN messages[i]
    THEN [kind |-> "KeyError", query |-> ""]
    ELSE LET user_messages == UserMessages(messages)
         IN  IF user_messages = <<>>
             THEN [kind |-> "HTTPException", query |-> ""]
             ELSE LET first == user_messages[1]
                  IN  IF "content" \notin DOMAIN first
                      THEN [kind |-> "KeyError", query |-> ""]
                      ELSE [kind |-> "ok", query |-> first.content]

ExtractQuery(messages) ==
    IF \E i \in 1..Len(messages) : "role" \notin DOMAIN messages[i]
    THEN [kind |-> "KeyError", query |-> ""]
    ELSE LET user_messages == UserMessages(messages)
         IN  IF user_messages = <<>>
             THEN [kind |-> "HTTPException", query |-> ""]
             ELSE LET last == user_messages[Len(user_messages)]
                  IN  IF "content" \notin DOMAIN last
                      THEN [kind |-> "KeyError", query |-> ""]
                      ELSE [kind |-> "ok", query |-> last.content]

(***************************************************************************)
(* Response normalisation of chat_completion (main.py:250-279).            *)
(***************************************************************************)
Raised == [ok |-> FALSE, v |-> Null]
Value(v) == [ok |-> TRUE, v |-> v]

\* the characters of s, as iterating a str yields them
Chars(s) == [i \in 1..Len(s) |-> Str(SubSeq(s, i, i))]

\* response_content += s : str concatenation, list.extend(s) on a list,
\* TypeError on any other JSON value
AppendStr(c, s) ==
    CASE c.k = "str"  -> Value(Str(c.s \o s))
      [] c.k = "list" -> Value(List(c.l \o Chars(s)))
      [] OTHER        -> Raised

\* variant: enumerate(options) without the start index 1
OptionLine_ZeroBased(i, option) ==
    "\n" \o IntStr(i - 1) \o ". "
         \o PyStr(Get(option, "text", Str("Option " \o IntStr(i - 1))))

\* f"\n{i}. {option_text}" with option_text = option.get('text', f'Option {i}')
OptionLine(i, option) ==
    "\n" \o IntStr(i) \o ". "
         \o PyStr(Get(option, "text", Str("Option " \o IntStr(i))))

\* the loop of main.py:270-272 from index i on; option.get raises
\* AttributeError on an option that is not a dict
RECURSIVE AppendOptions(_, _, _)
AppendOptions(c, options, i) ==
    IF i > Len(options) THEN Value(c)
    ELSE IF options[i].k # "dict" THEN Raised
    ELSE LET r == AppendStr(c, OptionLine(i, options[i]))
         IN  IF r.ok THEN AppendOptions(r.v, options, i + 1) ELSE Raised

\* the condition of main.py:256-260
ExpectedShape(data) ==
    /\ data.k = "dict"
    /\ HasKey(data, "response")
    /\ Get(data, "response", Null).k = "list"
    /\ Len(Get(data, "response", Null).l) > 0
    /\ Get(data, "response", Null).l[1].k = "dict"

\* variant: the type of the item is not looked at
IsOptionsItem_AnyType(response_item) == HasKey(response_item, "options")

\* main.py:266: response_item.get('type') == 'OPTIONS' and 'options' in item
IsOptionsItem(response_item) ==
    /\ Get(response_item, "type", Null) = Str("OPTIONS")
    /\ HasKey(response_item, "options")

\* variant: a payload of another shape gets the default text
NormalizeData_DefaultText(data) ==
    IF ExpectedShape(data)
    THEN LET response_item == Get(data, "response", Null).l[1]
             response_content ==
                 Get(response_item, "text", Str("No response text"))
         IN  IF IsOptionsItem(response_item)
             THEN LET options == Get(response_item, "options", Null)
                  IN  IF Truthy(options)
                      THEN LET r == AppendStr(response_content, "\n\nOptions:")
                           IN  IF ~r.ok \/ options.k # "list" THEN Raised
                               ELSE AppendOptions(r.v, options.l, 1)
                      ELSE Value(response_content)
             ELSE Value(response_content)
    ELSE Value(Str("No response text"))

\* main.py:256-275 on the parsed payload.  Iterating a truthy options value
\* that is no list raises: TypeError for a number or True, AttributeError at
\* the first element for a str (its characters) or a dict (its keys).
NormalizeData(data) ==
    IF ExpectedShape(data)
    THEN LET response_item == Get(data, "response", Null).l[1]
             response_content ==
                 Get(response_item, "text", Str("No response text"))
         IN  IF IsOptionsItem(response_item)
             THEN LET options == Get(response_item, "options", Null)
                  IN  IF Truthy(options)
                      THEN LET r == AppendStr(response_content, "\n\nOptions:")
                           IN  IF ~r.ok \/ options.k # "list" THEN Raised
                               ELSE AppendOptions(r.v, options.l, 1)
                      ELSE Value(response_content)
             ELSE Value(response_content)
    ELSE Value(Str(PyStr(data)))

\* variant: a body that is not JSON is passed on as text
Normalize_TextFallback(reply_body) ==
    IF reply_body.json THEN NormalizeData(reply_body.data)
    ELSE Value(Str(reply_body.text))

\* main.py:251-279 on the body of the backend's reply: response.json()
\* raises on a body that is not JSON
Normalize(reply_body) ==
    IF reply_body.json THEN NormalizeData(reply_body.data) ELSE Raised

(***************************************************************************)
(* The response objects (main.py:191-207, 295-310, 321-365).               *)
(***************************************************************************)
AgentsDescriptor ==
    [agents |-> <<[name |-> "Red Hat Console Agent",
                   description |-> "Connects to the Red Hat Console Virtual Assistant API for Red Hat product assistance",
                   provider |-> [organization |-> "Red Hat",
                                 url |-> "https://redhat.com"],
                   version |-> "1.0.0",
                   documentation_url |-> "https://access.redhat.com",
                   capabilities |-> [streaming |-> TRUE]]>>]

\* variant: the completion carries a second, empty choice
ChatCompletion_TwoChoices(id, created, c) ==
    [id |-> id, object |-> "chat.completion", created |-> created,
     model |-> "red-hat-console-agent",
     choices |-> <<[index |-> 0,
                    message |-> [role |-> "assistant", content |-> c],
                    finish_reason |-> "stop"],
                   [index |-> 1,
                    message |-> [role |-> "assistant", content |-> Str("")],
                    finish_reason |-> "stop"]>>]

ChatCompletion(id, created, c) ==
    [id |-> id, object |-> "chat.completion", created |-> created,
     model |-> "red-hat-console-agent",
     choices |-> <<[index |-> 0,
                    message |-> [role |-> "assistant", content |-> c],
                    finish_reason |-> "stop"]>>]

\* a chunk frame: "data: " + json.dumps(chunk) + "\n\n"; delta is a dict
Chunk(id, created, delta, finish_reason) ==
    [data |-> "json",
     json |-> [id |-> id, object |-> "chat.completion.chunk",
               created |-> created, model |-> "red-hat-console-agent",
               choices |-> <<[index |-> 0, delta |-> delta,
                              finish_reason |-> finish_reason]>>]]

\* variant: the final chunk carries no finish_reason
FinalChunk_NoStop(id, created) == Chunk(id, created, <<>>, Null)

\* variant: the error chunk takes a timestamp of its own
ErrorChunk_OwnTimestamp(id, created, e) ==
    Chunk(id, created + 1, <<<<"content", Str("Error: " \o e)>>>>, Str("stop"))

ContentChunk(id, created, c) == Chunk(id, created, <<<<"content", c>>>>, Null)
FinalChunk(id, created) == Chunk(id, created, <<>>, Str("stop"))
ErrorChunk(id, created, e) ==
    Chunk(id, created, <<<<"content", Str("Error: " \o e)>>>>, Str("stop"))
DoneFrame == [data |-> "[DONE]"]

(***************************************************************************)
(* Inputs: the requests a client can send and the replies the backend can  *)
(* give, drawn from small sets.                                            *)
(***************************************************************************)
NoHeader == [present |-> FALSE, value |-> ""]
Header(v) == [present |-> TRUE, value |-> v]

AuthHeaders ==
    {NoHeader, Header(""), Header("Bearer"), Header("Basic s3cret"),
     Header("bearer s3cret"), Header("Bearer "), Header("Bearer wrong"),
     Header("Bearer s3cret2"), Header("Bearer s3cret")}

ThreadHeaders == {NoHeader, Header("t-1")}

\* a message is a Dict[str, Any] (main.py:96): it may lack either key
MessageKinds ==
    {[role |-> "user", content |-> "q1"], [role |-> "user", content |-> "q2"],
     [role |-> "assistant", content |-> "a1"],
     [role |-> "system", content |-> "s1"], [content |-> "x1"],
     [role |-> "user"]}

SeqsUpTo(S, n) == UNION {[1..m -> S] : m \in 0..n}

MessageLists == SeqsUpTo(MessageKinds, MaxMsgs)

\* values uuid.uuid4() and time.time() can take
Uuids == {"0a1b2c3d", "4e5f6a7b"}
Times == {1700000000, 1700000001}

\* what requests.post returns or raises (main.py:130-145)
NetworkError == [kind |-> "None"]
NotJson(text) == [json |-> FALSE, text |-> text]
Json(data) == [json |-> TRUE, data |-> data]
HttpResponse(code, reply_body) ==
    [kind |-> "Response", status_code |-> code, body |-> reply_body]

Reply(items) == Dict(<<<<"response", List(items)>>>>)
Item(d) == Dict(d)
Option(t) == Dict(<<<<"text", Str(t)>>>>)

\* the backend replies the pipeline is exercised with
BackendReplies ==
    {NetworkError,
     HttpResponse(503, NotJson("Service Unavailable")),
     HttpResponse(404, Json(Dict(<<<<"error", Str("not found")>>>>))),
     HttpResponse(204, NotJson("")),
     HttpResponse(200, NotJson("<html>oops</html>")),
     HttpResponse(200, Json(Reply(<<Item(<<<<"text", Str("Hello")>>,
                                          <<"type", Str("TEXT")>>>>)>>))),
     HttpResponse(200, Json(Reply(<<Item(<<<<"text", Str("Pick")>>,
                                          <<"type", Str("OPTIONS")>>,
                                          <<"options", List(<<Option("A"), Option("B")>>)>>>>)>>))),
     HttpResponse(200, Json(Reply(<<Item(<<<<"text", Str("Pick")>>,
                                          <<"type", Str("OPTIONS")>>,
                                          <<"options", List(<<Str("A")>>)>>>>)>>))),
     HttpResponse(200, Json(Reply(<<Item(<<<<"text", Num(5)>>,
                                          <<"type", Str("OPTIONS")>>,
                                          <<"options", List(<<Option("A")>>)>>>>)>>))),
     HttpResponse(200, Json(Reply(<<Item(<<<<"type", Str("TEXT")>>>>)>>))),
     HttpResponse(200, Json(Reply(<<>>))),
     HttpResponse(200, Json(List(<<Num(1), Str("a")>>)))}

\* the family of replies the normalisation is exercised with: every item
\* built from a text, a type and an options value (each possibly absent)
Absent == [k |-> "absent"]
Field(key, v) == IF v = Absent THEN <<>> ELSE <<<<key, v>>>>
MkItem(text, type, options) ==
    Dict(Field("text", text) \o Field("type", type) \o Field("options", options))

OptionKinds ==
    {Option("A"), Option("B"), Dict(<<>>), Dict(<<<<"text", Num(7)>>>>), Str("A")}
TextValues == {Absent, Str("Hi"), Str(""), Num(5), Null, List(<<Num(1)>>)}
TypeValues == {Absent, Str("TEXT"), Str("OPTIONS"), Str("options"), Null}
OptionsValues ==
    {Absent, Null, Num(3), Str("AB"), Dict(<<<<"text", Str("A")>>>>)}
        \cup {List(l) : l \in SeqsUpTo(OptionKinds, MaxOptions)}

FamilyItems ==
    {MkItem(t, ty, o) : t \in TextValues, ty \in TypeValues, o \in OptionsValues}

FamilyPayloads ==
    {Reply(<<it>>) : it \in FamilyItems}
        \cup {Reply(<<MkItem(Str("Hi"), Str("TEXT"), Absent), it>>) :
                 it \in {MkItem(Str("Second"), Str("OPTIONS"), List(<<Option("A")>>))}}
        \cup {Reply(<<>>), Reply(<<Str("Hi")>>), Reply(<<Null, MkItem(Str("Hi"), Absent, Absent)>>),
              Dict(<<>>), Dict(<<<<"response", Str("Hi")>>>>),
              Dict(<<<<"text", Str("Hi")>>, <<"n", Num(12)>>, <<"ok", Bool(TRUE)>>>>),
              List(<<>>), List(<<Num(1), Str("a"), Null>>), Str("Hi"), Num(42),
              Null, Bool(FALSE)}

FamilyBodies == {Json(d) : d \in FamilyPayloads} \cup {NotJson("<html>oops</html>"), NotJson("")}

(***************************************************************************)
(* The state before a request arrives.                                     *)
(***************************************************************************)
NoRequest ==
    [endpoint |-> "", authorization |-> NoHeader, messages |-> <<>>,
     stream |-> FALSE, x_ibm_thread_id |-> NoHeader]
NoResponse == [kind |-> "unset"]
NoContent == [k |-> "unset"]
NoBody == [none |-> TRUE]
NoGen == [completion_id |-> "", created |-> 0, error |-> "", raised_at |-> ""]
NoSeen == [none |-> TRUE]

Init ==
    /\ pc = "idle"
    /\ req = NoRequest
    /\ thread_id = ""
    /\ query = ""
    /\ response = NoResponse
    /\ content = NoContent
    /\ status = 0
    /\ detail = ""
    /\ challenge = ""
    /\ body = NoBody
    /\ frames = <<>>
    /\ gen = NoGen
    /\ backendCalls = <<>>
    /\ stages = <<>>
    /\ seen = NoSeen

\* the handler raised HTTPException(code, msg) or an unhandled exception
\* (code 500): the request ends with that status and nothing else
Fail(code, msg, hdr) ==
    /\ status' = code
    /\ detail' = msg
    /\ challenge' = hdr
    /\ pc' = "done"

(***************************************************************************)
(* A request arrives: GET /v1/agents, or POST /v1/chat with a ChatRequest  *)
(* body (main.py:95-97, 186-187, 213-218).                                 *)
(***************************************************************************)
ReceiveAgents(authorization) ==
    /\ pc = "idle"
    /\ req' = [NoRequest EXCEPT !.endpoint = "/v1/agents",
                                !.authorization = authorization]
    /\ pc' = "auth"
    /\ UNCHANGED <<thread_id, query, response, content, status, detail,
                   challenge, body, frames, gen, backendCalls, stages>>
    /\ UNCHANGED seen

ReceiveChat(authorization, messages, stream, x_ibm_thread_id) ==
    /\ pc = "idle"
    /\ req' = [endpoint |-> "/v1/chat", authorization |-> authorization,
               messages |-> messages, stream |-> stream,
               x_ibm_thread_id |-> x_ibm_thread_id]
    /\ pc' = "auth"
    /\ UNCHANGED <<thread_id, query, response, content, status, detail,
                   challenge, body, frames, gen, backendCalls, stages>>
    /\ UNCHANGED seen

\* Depends(verify_bearer_token) runs before either handler (main.py:159-183)
Authenticate ==
    /\ pc = "auth"
    /\ stages' = Append(stages, "Authenticate")
    /\ LET r == verify_bearer_token(req.authorization)
       IN  IF r.ok
           THEN /\ pc' = IF req.endpoint = "/v1/agents" THEN "agents" ELSE "extract"
                /\ UNCHANGED <<status, detail, challenge>>
           ELSE Fail(r.status, r.detail, r.challenge)
    /\ UNCHANGED <<req, thread_id, query, response, content, body, frames,
                   gen, backendCalls>>
    /\ UNCHANGED seen

\* discover_agents (main.py:186-210)
DiscoverAgents ==
    /\ pc = "agents"
    /\ status' = 200
    /\ body' = AgentsDescriptor
    /\ pc' = "done"
    /\ UNCHANGED <<req, thread_id, query, response, content, detail,
                   challenge, frames, gen, backendCalls, stages>>
    /\ UNCHANGED seen

\* chat_completion, main.py:219-240
ExtractUserQuery ==
    /\ pc = "extract"
    /\ stages' = Append(stages, "ExtractQuery")
    /\ \E u \in Uuids :
          thread_id' = IF req.x_ibm_thread_id.present /\ req.x_ibm_thread_id.value # ""
                       THEN req.x_ibm_thread_id.value ELSE u
    /\ LET r == ExtractQuery(req.messages)
       IN  CASE r.kind = "KeyError" ->
                    /\ Fail(500, "Internal Server Error", "")
                    /\ UNCHANGED query
             [] r.kind = "HTTPException" ->
                    /\ Fail(400, "No user message found", "")
                    /\ UNCHANGED query
             [] r.kind = "ok" ->
                    /\ query' = r.query
                    /\ pc' = "call"
                    /\ UNCHANGED <<status, detail, challenge>>
    /\ UNCHANGED <<req, response, content, body, frames, gen, backendCalls>>
    /\ UNCHANGED seen

\* variant: the thread id is forwarded to the backend with the query
CallBackend_ForwardsThread ==
    /\ pc = "call"
    /\ stages' = Append(stages, "CallBackend")
    /\ backendCalls' = Append(backendCalls, [input |-> [text |-> query],
                                             thread_id |-> thread_id])
    /\ pc' = "waiting"
    /\ UNCHANGED <<req, thread_id, query, response, content, status, detail,
                   challenge, body, frames, gen>>
    /\ UNCHANGED seen

\* RedHatConsoleClient.send_message up to requests.post (main.py:113-132)
CallBackend ==
    /\ pc = "call"
    /\ stages' = Append(stages, "CallBackend")
    /\ backendCalls' = Append(backendCalls, [input |-> [text |-> query]])
    /\ pc' = "waiting"
    /\ UNCHANGED <<req, thread_id, query, response, content, status, detail,
                   challenge, body, frames, gen>>
    /\ UNCHANGED seen

\* bool(response): None is falsy, a requests.Response is truthy iff it is ok
ResponseFalsy(r) == r.kind = "None" \/ r.status_code >= 400

\* variant: only the truth value of the response is checked
BackendReturns_OnlyFalsy(r) ==
    /\ pc = "waiting"
    /\ response' = r
    /\ IF ResponseFalsy(r)
       THEN Fail(500, "Failed to get response from Red Hat Console API", "")
       ELSE /\ pc' = "parse"
            /\ UNCHANGED <<status, detail, challenge>>
    /\ UNCHANGED <<req, thread_id, query, content, body, frames, gen,
                   backendCalls, stages>>
    /\ UNCHANGED seen

\* variant: a failed call is issued again
BackendReturns_Retry(r) ==
    /\ pc = "waiting"
    /\ response' = r
    /\ IF ResponseFalsy(r) \/ r.status_code # 200
       THEN /\ pc' = "call"
            /\ UNCHANGED <<status, detail, challenge>>
       ELSE /\ pc' = "parse"
            /\ UNCHANGED <<status, detail, challenge>>
    /\ UNCHANGED <<req, thread_id, query, content, body, frames, gen,
                   backendCalls, stages>>
    /\ UNCHANGED seen

\* requests.post returns or raises, send_message returns the response or
\* None, and chat_completion checks it (main.py:132-145, 246-248)
BackendReturns(r) ==
    /\ pc = "waiting"
    /\ response' = r
    /\ IF ResponseFalsy(r) \/ r.status_code # 200
       THEN Fail(500, "Failed to get response from Red Hat Console API", "")
       ELSE /\ pc' = "parse"
            /\ UNCHANGED <<status, detail, challenge>>
    /\ UNCHANGED <<req, thread_id, query, content, body, frames, gen,
                   backendCalls, stages>>
    /\ UNCHANGED seen

\* variant: the content of the earlier request is kept and prepended
NormalizeResponse_Remembering ==
    /\ pc = "parse"
    /\ stages' = Append(stages, "Normalize")
    /\ LET r == Normalize(response.body)
       IN  IF r.ok
           THEN /\ content' = IF seen # NoSeen /\ seen.content.k = "str"
                                                /\ r.v.k = "str"
                              THEN Str(seen.content.s \o r.v.s)
                              ELSE r.v
                /\ pc' = "respond"
                /\ UNCHANGED <<status, detail, challenge>>
           ELSE /\ Fail(500, "Invalid response from Red Hat Console API", "")
                /\ UNCHANGED content
    /\ UNCHANGED <<req, thread_id, query, response, body, frames, gen,
                   backendCalls>>
    /\ UNCHANGED seen

\* chat_completion, main.py:250-283
NormalizeResponse ==
    /\ pc = "parse"
    /\ stages' = Append(stages, "Normalize")
    /\ LET r == Normalize(response.body)
       IN  IF r.ok
           THEN /\ content' = r.v
                /\ pc' = "respond"
                /\ UNCHANGED <<status, detail, challenge>>
           ELSE /\ Fail(500, "Invalid response from Red Hat Console API", "")
                /\ UNCHANGED content
    /\ UNCHANGED <<req, thread_id, query, response, body, frames, gen,
                   backendCalls>>
    /\ UNCHANGED seen

\* chat_completion, main.py:285-310
Respond ==
    /\ pc = "respond"
    /\ stages' = Append(stages, "Respond")
    /\ status' = 200
    /\ IF req.stream
       THEN /\ pc' = "gen_start"
            /\ UNCHANGED body
       ELSE /\ \E u \in Uuids, t \in Times :
                  body' = ChatCompletion("chatcmpl-" \o u, t, content)
            /\ pc' = "done"
    /\ UNCHANGED <<req, thread_id, query, response, content, detail,
                   challenge, frames, gen, backendCalls>>
    /\ UNCHANGED seen

(***************************************************************************)
(* simulate_streaming_response (main.py:312-365), one action per step of   *)
(* the generator.                                                          *)
(***************************************************************************)
GenUnchanged ==
    UNCHANGED <<req, thread_id, query, response, content, status, detail,
                challenge, body, backendCalls, stages, seen>>

\* main.py:314-315
GenStart ==
    /\ pc = "gen_start"
    /\ \E u \in Uuids, t \in Times :
          gen' = [NoGen EXCEPT !.completion_id = "chatcmpl-" \o u, !.created = t]
    /\ pc' = "gen_chunk"
    /\ UNCHANGED frames
    /\ GenUnchanged

\* main.py:318-334
YieldContent ==
    /\ pc = "gen_chunk"
    /\ frames' = Append(frames, ContentChunk(gen.completion_id, gen.created, content))
    /\ pc' = "gen_final"
    /\ UNCHANGED gen
    /\ GenUnchanged

\* main.py:337-350
YieldFinal ==
    /\ pc = "gen_final"
    /\ frames' = Append(frames, FinalChunk(gen.completion_id, gen.created))
    /\ pc' = "gen_sentinel"
    /\ UNCHANGED gen
    /\ GenUnchanged

\* main.py:351
YieldDone ==
    /\ pc = "gen_sentinel"
    /\ frames' = Append(frames, DoneFrame)
    /\ pc' = "gen_log"
    /\ UNCHANGED gen
    /\ GenUnchanged

\* variant: after the sentinel the generator starts over
GenReturn_Restarts ==
    /\ pc = "gen_log"
    /\ pc' = "gen_start"
    /\ frames' = <<>>
    /\ gen' = NoGen
    /\ GenUnchanged

\* main.py:353, then the generator returns
GenReturn ==
    /\ pc = "gen_log"
    /\ pc' = "done"
    /\ UNCHANGED <<frames, gen>>
    /\ GenUnchanged

\* the messages of the exceptions a statement of the try block can raise
Errors == {"boom"}

\* the positions of the try block (main.py:317-353) at which a statement
\* runs that can raise: building and serialising the first chunk (318-334),
\* the final chunk (337-350), the closing log call (353)
TryPositions == {"gen_chunk", "gen_final", "gen_log"}

\* a statement of the try block raises an Exception (main.py:355-356)
RaiseInTry(e) ==
    /\ pc \in TryPositions
    /\ gen' = [gen EXCEPT !.error = e, !.raised_at = pc]
    /\ pc' = "gen_except"
    /\ UNCHANGED frames
    /\ GenUnchanged

\* main.py:357-364
YieldError ==
    /\ pc = "gen_except"
    /\ frames' = Append(frames, ErrorChunk(gen.completion_id, gen.created, gen.error))
    /\ pc' = "gen_except_done"
    /\ UNCHANGED gen
    /\ GenUnchanged

\* variant: the handler returns without the sentinel
YieldErrorDone_NoSentinel ==
    /\ pc = "gen_except_done"
    /\ pc' = "done"
    /\ UNCHANGED <<frames, gen>>
    /\ GenUnchanged

\* main.py:365, then the generator returns
YieldErrorDone ==
    /\ pc = "gen_except_done"
    /\ frames' = Append(frames, DoneFrame)
    /\ pc' = "done"
    /\ UNCHANGED gen
    /\ GenUnchanged

\* the response is complete; the request-scoped state is discarded
Finish ==
    /\ pc = "done"
    /\ pc' = "idle"
    /\ req' = NoRequest
    /\ thread_id' = ""
    /\ query' = ""
    /\ response' = NoResponse
    /\ content' = NoContent
    /\ status' = 0
    /\ detail' = ""
    /\ challenge' = ""
    /\ body' = NoBody
    /\ frames' = <<>>
    /\ gen' = NoGen
    /\ backendCalls' = <<>>
    /\ stages' = <<>>
    /\ UNCHANGED seen

\* the environment's choices: a client sends a request, the backend
\* answers, a statement of the generator's try block raises
ClientSendsAgents ==
    /\ pc = "idle"
    /\ \E a \in AuthHeaders : ReceiveAgents(a)

ClientSendsChat ==
    /\ pc = "idle"
    /\ \E a \in AuthHeaders, m \in MessageLists, s \in BOOLEAN, t \in ThreadHeaders :
          ReceiveChat(a, m, s, t)

BackendAnswers ==
    /\ pc = "waiting"
    /\ \E r \in BackendReplies : BackendReturns(r)

StatementRaises ==
    /\ pc \in TryPositions
    /\ \E e \in Errors : RaiseInTry(e)

Next ==
    \/ ClientSendsAgents
    \/ ClientSendsChat
    \/ Authenticate
    \/ DiscoverAgents
    \/ ExtractUserQuery
    \/ CallBackend
    \/ BackendAnswers
    \/ NormalizeResponse
    \/ Respond
    \/ GenStart
    \/ YieldContent
    \/ YieldFinal
    \/ YieldDone
    \/ GenReturn
    \/ StatementRaises
    \/ YieldError
    \/ YieldErrorDone
    \/ Finish

Spec == Init /\ [][Next]_vars

(***************************************************************************)
(* The normalisation alone, over the whole family of replies: the request  *)
(* is a valid chat request whose backend call has returned status 200.     *)
(***************************************************************************)
NormInit ==
    /\ pc = "parse"
    /\ \E s \in BOOLEAN :
          req = [endpoint |-> "/v1/chat", authorization |-> Header("Bearer s3cret"),
                 messages |-> <<[role |-> "user", content |-> "q1"]>>,
                 stream |-> s, x_ibm_thread_id |-> NoHeader]
    /\ thread_id \in Uuids
    /\ query = "q1"
    /\ \E b \in FamilyBodies : response = HttpResponse(200, b)
    /\ content = NoContent
    /\ status = 0
    /\ detail = ""
    /\ challenge = ""
    /\ body = NoBody
    /\ frames = <<>>
    /\ gen = NoGen
    /\ backendCalls = <<[input |-> [text |-> "q1"]]>>
    /\ stages = <<"Authenticate", "ExtractQuery", "CallBackend">>
    /\ seen = NoSeen

NormNext == NormalizeResponse \/ Respond

NormSpec == NormInit /\ [][NormNext]_vars

(***************************************************************************)
(* Two requests in a row, the second answered by the backend with the      *)
(* reply the first one got.  An observer records what the first request    *)
(* sent and returned; the ids and timestamps drawn per response are left   *)
(* out of the record.                                                      *)
(***************************************************************************)
FrameShape(f) ==
    IF f.data = "json"
    THEN [data |-> "json", object |-> f.json.object, model |-> f.json.model,
          choices |-> f.json.choices]
    ELSE f

FrameShapes(fs) == [i \in 1..Len(fs) |-> FrameShape(fs[i])]

BodyShape(b) ==
    IF b = NoBody THEN b
    ELSE [object |-> b.object, model |-> b.model, choices |-> b.choices]

Observation ==
    [req |-> req, response |-> response, backendCalls |-> backendCalls,
     stages |-> stages, status |-> status, detail |-> detail,
     challenge |-> challenge, content |-> content,
     body |-> BodyShape(body), frames |-> FrameShapes(frames),
     raised_at |-> gen.raised_at]

ReplayAuthHeaders == {Header("Bearer " \o REQUIRED_BEARER_TOKEN), Header("Bearer wrong")}

ReplayMessageLists ==
    {<<[role |-> "user", content |-> "q1"]>>,
     <<[role |-> "user", content |-> "q1"],
       [role |-> "assistant", content |-> "a1"],
       [role |-> "user", content |-> "q2"]>>,
     <<[role |-> "system", content |-> "s1"]>>,
     <<[content |-> "x1"]>>}

FirstRequest ==
    /\ pc = "idle"
    /\ seen = NoSeen
    /\ \E a \in ReplayAuthHeaders, m \in ReplayMessageLists, s \in BOOLEAN,
          t \in ThreadHeaders :
          ReceiveChat(a, m, s, t)

FirstReply ==
    /\ pc = "waiting"
    /\ seen = NoSeen
    /\ \E r \in BackendReplies : BackendReturns(r)

\* the first request is over: the observer records it
Observe ==
    /\ pc = "done"
    /\ seen = NoSeen
    /\ seen' = Observation
    /\ pc' = "idle"
    /\ req' = NoRequest
    /\ thread_id' = ""
    /\ query' = ""
    /\ response' = NoResponse
    /\ content' = NoContent
    /\ status' = 0
    /\ detail' = ""
    /\ challenge' = ""
    /\ body' = NoBody
    /\ frames' = <<>>
    /\ gen' = NoGen
    /\ backendCalls' = <<>>
    /\ stages' = <<>>

SecondRequest ==
    /\ pc = "idle"
    /\ seen # NoSeen
    /\ \E a \in ReplayAuthHeaders, m \in ReplayMessageLists, s \in BOOLEAN,
          t \in ThreadHeaders :
          ReceiveChat(a, m, s, t)

\* the backend gives the second request the reply it gave the first
SecondReply ==
    /\ pc = "waiting"
    /\ seen # NoSeen
    /\ seen.response # NoResponse
    /\ BackendReturns(seen.response)

ReplayNext ==
    \/ FirstRequest
    \/ FirstReply
    \/ Observe
    \/ SecondRequest
    \/ SecondReply
    \/ Authenticate
    \/ ExtractUserQuery
    \/ CallBackend
    \/ NormalizeResponse
    \/ Respond
    \/ GenStart
    \/ YieldContent
    \/ YieldFinal
    \/ YieldDone
    \/ GenReturn
    \/ StatementRaises
    \/ YieldError
    \/ YieldErrorDone

ReplaySpec == Init /\ [][ReplayNext]_vars

(***************************************************************************)
(* Progress.  The handler is straight-line code and runs on once entered;  *)
(* the backend call is assumed to return or error (requests.post is given  *)
(* no timeout, main.py:132); the server pulls the generator until it is    *)
(* exhausted.  Neither a client sending a request nor a statement raising  *)
(* is required to happen.                                                  *)
(***************************************************************************)
HandlerStep ==
    \/ Authenticate
    \/ ExtractUserQuery
    \/ CallBackend
    \/ NormalizeResponse
    \/ Respond

GeneratorStep ==
    \/ GenStart
    \/ YieldContent
    \/ YieldFinal
    \/ YieldDone
    \/ GenReturn
    \/ YieldError
    \/ YieldErrorDone

LiveNext ==
    \/ FirstRequest
    \/ FirstReply
    \/ Authenticate
    \/ ExtractUserQuery
    \/ CallBackend
    \/ NormalizeResponse
    \/ Respond
    \/ GenStart
    \/ YieldContent
    \/ YieldFinal
    \/ YieldDone
    \/ GenReturn
    \/ StatementRaises
    \/ YieldError
    \/ YieldErrorDone
    \/ Finish

Fairness ==
    /\ WF_vars(HandlerStep)
    /\ WF_vars(FirstReply)
    /\ WF_vars(GeneratorStep)

LiveSpec == Init /\ [][LiveNext]_vars /\ Fairness

(***************************************************************************)
(* Properties.                                                             *)
(***************************************************************************)
Range(seq) == {seq[i] : i \in DOMAIN seq}
Max(S) == CHOOSE x \in S : \A y \in S : y <= x

\* the Authorization header of the request is absent, empty or does not
\* begin with "Bearer "
AuthMalformed ==
    \/ ~req.authorization.present
    \/ req.authorization.value = ""
    \/ ~StartsWith(req.authorization.value, "Bearer ")

IsContentChunk(f, c) ==
    /\ f.data = "json"
    /\ f.json.choices[1].delta = <<<<"content", c>>>>
    /\ f.json.choices[1].finish_reason = Null

IsFinishChunk(f) ==
    /\ f.data = "json"
    /\ f.json.choices[1].delta = <<>>
    /\ f.json.choices[1].finish_reason = Str("stop")

IsSentinel(f) == f.data = "[DONE]"

IsErrorChunk(f) ==
    /\ f.data = "json"
    /\ Len(f.json.choices[1].delta) = 1
    /\ f.json.choices[1].delta[1][1] = "content"
    /\ \E e \in Errors : f.json.choices[1].delta[1][2] = Str("Error: " \o e)

\* a streaming request that succeeded and in whose generator nothing raised
StreamingSuccess == req.stream /\ status = 200 /\ gen.raised_at = ""

\* C2: a successful streaming request emits exactly three frames in this
\* order: the content chunk carrying the whole normalized content with
\* finish_reason null, the finish chunk with an empty delta and finish_reason
\* "stop", the [DONE] sentinel; at every moment the frames emitted so far
\* are a prefix of that sequence.
C2_StreamIsThreeFrames ==
    StreamingSuccess =>
        /\ Len(frames) <= 3
        /\ Len(frames) >= 1 => IsContentChunk(frames[1], content)
        /\ Len(frames) >= 2 => IsFinishChunk(frames[2])
        /\ Len(frames) >= 3 => IsSentinel(frames[3])
        /\ pc = "done" => Len(frames) = 3

C2_Witness ==
    /\ pc = "done"
    /\ StreamingSuccess
    /\ content = Str("Hello")
    /\ Len(frames) = 3
    /\ frames[1].json.choices[1].delta = <<<<"content", Str("Hello")>>>>

\* an exception was raised in the try block before the sentinel was emitted
RaisedBeforeSentinel == gen.raised_at \in {"gen_chunk", "gen_final"}

UserIndices ==
    {i \in 1..Len(req.messages) :
        "role" \in DOMAIN req.messages[i] /\ req.messages[i].role = "user"}

\* the request passed the authenticator and its query extraction has run
Extracted == req.endpoint = "/v1/chat" /\ "ExtractQuery" \in Range(stages)

\* C4 as stated: an authenticated chat request without any message of role
\* "user" (an empty sequence and messages that carry no role included) ends
\* with HTTP 400 and no backend call.
C4_Original ==
    (Extracted /\ UserIndices = {}) =>
        /\ status = 400
        /\ backendCalls = <<>>

\* every message of the request carries both keys
AllKeyed ==
    \A i \in 1..Len(req.messages) :
        {"role", "content"} \subseteq DOMAIN req.messages[i]

\* C5: at most one query is sent to the backend per request, and a query
\* that is sent is {"input": {"text": c}} with c the content of the last
\* message whose role is "user"; nothing else is ever sent.  When every
\* message carries a role and a content and some message is a user message,
\* the query is sent once the request has passed the call.
C5_LastUserMessageIsQuery ==
    /\ Len(backendCalls) <= 1
    /\ \A j \in 1..Len(backendCalls) :
          /\ UserIndices # {}
          /\ "content" \in DOMAIN req.messages[Max(UserIndices)]
          /\ backendCalls[j] =
                [input |-> [text |-> req.messages[Max(UserIndices)].content]]
    /\ (/\ req.endpoint = "/v1/chat"
        /\ AllKeyed
        /\ UserIndices # {}
        /\ status # 401
        /\ pc \notin {"idle", "auth", "extract", "call"}) =>
          Len(backendCalls) = 1

C5_Witness ==
    /\ req.messages = <<[role |-> "user", content |-> "q1"],
                        [role |-> "user", content |-> "q2"],
                        [role |-> "assistant", content |-> "a1"]>>
    /\ backendCalls = <<[input |-> [text |-> "q2"]]>>
    /\ pc = "waiting"

\* the backend call ended with a network error or a status other than 200
BackendFailed ==
    \/ response.kind = "None"
    \/ response.kind = "Response" /\ response.status_code # 200

\* C6: when the backend call ends with a network error or a non-200 status,
\* the request ends with HTTP 500 "Failed to get response ...", whatever the
\* stream flag; the normalizer is not run and no completion object or frame
\* is emitted.
C6_BackendFailureIs500 ==
    BackendFailed =>
        /\ pc = "done"
        /\ status = 500
        /\ detail = "Failed to get response from Red Hat Console API"
        /\ "Normalize" \notin Range(stages)
        /\ content = NoContent
        /\ body = NoBody
        /\ frames = <<>>

C6_Witness ==
    /\ response.kind = "Response"
    /\ response.status_code = 204
    /\ req.stream
    /\ pc = "done"
    /\ status = 500

\* the backend replied 200 and the normalisation of its body has run
Normalized ==
    /\ response.kind = "Response"
    /\ response.status_code = 200
    /\ "Normalize" \in Range(stages)

\* C7 as stated: a 200 reply whose body parses as JSON, whatever its shape,
\* is normalized and the request succeeds; HTTP 500 "Invalid response ..."
\* occurs only when the body is not JSON.
C7_Original ==
    (Normalized /\ response.body.json) =>
        /\ status # 500
        /\ content.k = "str"

\* C8: a 200 reply whose body is not JSON ends the request with HTTP 500
\* "Invalid response from Red Hat Console API", whatever the stream flag,
\* and no completion object or frame is emitted.
C8_NonJsonIs500 ==
    (Normalized /\ ~response.body.json) =>
        /\ pc = "done"
        /\ status = 500
        /\ detail = "Invalid response from Red Hat Console API"
        /\ content = NoContent
        /\ body = NoBody
        /\ frames = <<>>

C8_Witness ==
    /\ Normalized
    /\ ~response.body.json
    /\ req.stream
    /\ status = 500

\* the first response item of a reply of the expected shape
FirstItem == Get(response.body.data, "response", Null).l[1]

\* the reply's first item has type "OPTIONS", a text, and a non-empty
\* options sequence of options (mappings whose text, if any, is a string)
OptionsReply ==
    /\ response.body.json
    /\ ExpectedShape(response.body.data)
    /\ Get(FirstItem, "type", Null) = Str("OPTIONS")
    /\ Get(FirstItem, "text", Null).k = "str"
    /\ Get(FirstItem, "options", Null).k = "list"
    /\ Get(FirstItem, "options", Null).l # <<>>
    /\ \A o \in Range(Get(FirstItem, "options", Null).l) :
          o.k = "dict" /\ (HasKey(o, "text") => Get(o, "text", Null).k = "str")

\* the lines "\n{i}. {text of option i}" for i = 1..n, an option without
\* text rendered as "Option {i}"
RECURSIVE NumberedLines(_, _)
NumberedLines(options, n) ==
    IF n = 0 THEN ""
    ELSE NumberedLines(options, n - 1) \o "\n" \o IntStr(n) \o ". "
            \o (IF HasKey(options[n], "text")
                THEN Get(options[n], "text", Null).s
                ELSE "Option " \o IntStr(n))

\* C9: for a reply whose first item has type "OPTIONS" and a non-empty
\* sequence of n options, the normalized content is the item's text, then
\* "\n\nOptions:", then for i = 1..n in order the line "\n{i}. {text of
\* option i}", an option without text rendered as "Option {i}".
C9_OptionsAreNumbered ==
    (Normalized /\ OptionsReply) =>
        LET options == Get(FirstItem, "options", Null).l
        IN  /\ status # 500
            /\ content = Str(Get(FirstItem, "text", Null).s \o "\n\nOptions:"
                                \o NumberedLines(options, Len(options)))

C9_Witness ==
    /\ Normalized
    /\ OptionsReply
    /\ Get(FirstItem, "options", Null).l = <<Option("A"), Dict(<<>>)>>
    /\ content = Str("Hi\n\nOptions:\n1. A\n2. Option 2")

\* the reply's first item has type "TEXT" and a text field
TextReply ==
    /\ response.body.json
    /\ ExpectedShape(response.body.data)
    /\ Get(FirstItem, "type", Null) = Str("TEXT")
    /\ HasKey(FirstItem, "text")

\* C10: for a reply whose first item has type "TEXT" and a text field, the
\* normalized content is that text field unchanged, with no "Options:"
\* suffix, also when the item carries an options sequence.
C10_TextIsVerbatim ==
    (Normalized /\ TextReply) =>
        /\ status # 500
        /\ content = Get(FirstItem, "text", Null)

C10_Witness ==
    /\ Normalized
    /\ TextReply
    /\ Get(FirstItem, "options", Null) = List(<<Option("A"), Option("B")>>)
    /\ content = Str("Hi")


\* the authenticator has run on the request
Authenticated == "Authenticate" \in Range(stages)

\* the message the authenticator gives for each cause of rejection
AuthMessage ==
    IF ~req.authorization.present \/ req.authorization.value = ""
    THEN "Authorization header required"
    ELSE IF ~StartsWith(req.authorization.value, "Bearer ")
    THEN "Authorization header must start with 'Bearer '"
    ELSE "Invalid bearer token"

FailureKinds ==
    {<<401, "Authorization header required">>,
     <<401, "Authorization header must start with 'Bearer '">>,
     <<401, "Invalid bearer token">>,
     <<400, "No user message found">>,
     <<500, "Failed to get response from Red Hat Console API">>,
     <<500, "Invalid response from Red Hat Console API">>}

\* C12 as stated: a /v1/chat request that does not succeed ends in one of
\* the four failure kinds (401 authentication, 400 no user message, 500
\* backend unavailable, 500 normalization), also when messages lack a role
\* or a content key.
C12_Original ==
    (pc = "done" /\ req.endpoint = "/v1/chat" /\ status # 200) =>
        <<status, detail>> \in FailureKinds

\* the stages of the pipeline, in order
Pipeline ==
    <<"Authenticate", "ExtractQuery", "CallBackend", "Normalize", "Respond">>

\* C13: the stages of a request are executed in the fixed order, each at
\* most once (the executed stages are a prefix of the pipeline); at most one
\* backend call is issued; once a stage has failed the request is over, and
\* nothing of a later stage (call, content, body, frame) exists.
C13_LinearPipeline ==
    /\ Len(stages) <= Len(Pipeline)
    /\ stages = SubSeq(Pipeline, 1, Len(stages))
    /\ Len(backendCalls) <= 1
    /\ Len(backendCalls) = 1 <=> "CallBackend" \in Range(stages)
    /\ content # NoContent => "Normalize" \in Range(stages)
    /\ (body # NoBody /\ req.endpoint = "/v1/chat") => "Respond" \in Range(stages)
    /\ frames # <<>> => "Respond" \in Range(stages)
    /\ status \in {400, 401, 500} =>
          /\ pc = "done"
          /\ body = NoBody
          /\ frames = <<>>
          /\ status = 401 => stages = SubSeq(Pipeline, 1, 1)
          /\ status = 400 => stages = SubSeq(Pipeline, 1, 2)

C13_Witness ==
    /\ pc = "done"
    /\ stages = Pipeline
    /\ Len(backendCalls) = 1
    /\ Len(frames) = 3

\* the chunks among the frames emitted so far
ChunkFrames == {i \in 1..Len(frames) : frames[i].data = "json"}

\* C14: every chunk of a stream (content, finish and error chunk) carries
\* the id and the created value the generator fixed before its first frame.
C14_ChunksShareIdAndCreated ==
    /\ \A i \in ChunkFrames :
          /\ frames[i].json.id = gen.completion_id
          /\ frames[i].json.created = gen.created
    /\ frames # <<>> => gen.completion_id # ""

C14_Witness ==
    /\ pc = "done"
    /\ gen.raised_at = "gen_log"
    /\ Len(frames) = 5
    /\ frames[1].json.id = frames[4].json.id
    /\ frames[2].json.created = frames[4].json.created


\* the indices of the [DONE] frames emitted so far
Sentinels == {i \in 1..Len(frames) : IsSentinel(frames[i])}

\* C17 as stated: in every stream, on the success path and on the error
\* path alike, no frame is emitted after [DONE], and a stream that has ended
\* holds [DONE] exactly once, as its last frame.
C17_Original ==
    /\ \A i \in Sentinels : i = Len(frames)
    /\ (pc = "done" /\ req.stream /\ status = 200) =>
          Sentinels = {Len(frames)}

\* C18: a successful /v1/chat request with stream = false has ended with one
\* chat.completion object that has exactly one choice, with index 0, a
\* message of role "assistant" whose content is the normalized content, and
\* finish_reason "stop"; no frame is emitted.
C18_SingleCompletionObject ==
    (req.endpoint = "/v1/chat" /\ status = 200 /\ ~req.stream) =>
        /\ pc = "done"
        /\ content # NoContent
        /\ body # NoBody
        /\ body.object = "chat.completion"
        /\ Len(body.choices) = 1
        /\ body.choices[1].index = 0
        /\ body.choices[1].message = [role |-> "assistant", content |-> content]
        /\ body.choices[1].finish_reason = "stop"
        /\ frames = <<>>
        /\ gen = NoGen

C18_Witness ==
    /\ req.endpoint = "/v1/chat"
    /\ ~req.stream
    /\ status = 200
    /\ content = Str("Hello")
    /\ body.choices[1].message.content = Str("Hello")

\* the parsed payload is no mapping with a response key that holds a
\* non-empty sequence whose first element is a mapping
OtherShape(data) ==
    \/ data.k # "dict"
    \/ \A i \in 1..Len(data.d) : data.d[i][1] # "response"
    \/ LET r == Get(data, "response", Null)
       IN  \/ r.k # "list"
           \/ r.l = <<>>
           \/ r.l[1].k # "dict"

\* str(payload) for some payloads, as Python prints them
Renderings ==
    {<<List(<<Num(1), Str("a"), Null>>), "[1, 'a', None]">>,
     <<List(<<>>), "[]">>,
     <<Dict(<<>>), "{}">>,
     <<Dict(<<<<"text", Str("Hi")>>, <<"n", Num(12)>>, <<"ok", Bool(TRUE)>>>>),
       "{'text': 'Hi', 'n': 12, 'ok': True}">>,
     <<Dict(<<<<"response", Str("Hi")>>>>), "{'response': 'Hi'}">>,
     <<Reply(<<>>), "{'response': []}">>,
     <<Reply(<<Str("Hi")>>), "{'response': ['Hi']}">>,
     <<Str("Hi"), "Hi">>,
     <<Num(42), "42">>,
     <<Null, "None">>,
     <<Bool(FALSE), "False">>}

\* C19: when the parsed payload is no mapping with a response key holding a
\* non-empty sequence whose first element is a mapping, the request does not
\* fail and the normalized content is str(payload), the rendering of the
\* whole payload (a list prints as "[1, 'a', None]", an empty response as
\* "{'response': []}").
C19_OtherShapeIsRawDump ==
    (Normalized /\ response.body.json /\ OtherShape(response.body.data)) =>
        /\ status # 500
        /\ content = Str(PyStr(response.body.data))
        /\ \A p \in Renderings :
              response.body.data = p[1] => content = Str(p[2])

C19_Witness ==
    /\ Normalized
    /\ response.body.json
    /\ response.body.data = Reply(<<Str("Hi")>>)
    /\ content = Str("{'response': ['Hi']}")
    /\ status = 200

\* the reply is JSON of the expected shape
ItemReply ==
    /\ response.body.json
    /\ ~OtherShape(response.body.data)

\* the text of the first item, "No response text" when it has none
BaseText ==
    IF HasKey(FirstItem, "text") THEN Get(FirstItem, "text", Null)
    ELSE Str("No response text")

\* the first item has type "OPTIONS" and a non-empty options sequence
HasOptions ==
    /\ HasKey(FirstItem, "type")
    /\ Get(FirstItem, "type", Null) = Str("OPTIONS")
    /\ HasKey(FirstItem, "options")
    /\ Get(FirstItem, "options", Null).k = "list"
    /\ Get(FirstItem, "options", Null).l # <<>>

\* the options of the first item are absent or an empty sequence
NoOptions ==
    \/ ~HasKey(FirstItem, "options")
    \/ Get(FirstItem, "options", Null) = List(<<>>)

\* the content is a string that begins with the text and "\n\nOptions:"
HasSuffix ==
    /\ content.k = "str"
    /\ BaseText.k = "str"
    /\ StartsWith(content.s, BaseText.s \o "\n\nOptions:")

\* C20: for a reply of the expected shape, when the first item's type is
\* absent or not "OPTIONS", or its options are absent or empty, the content
\* is exactly the item's text, or "No response text" when it has no text;
\* a content other than that text is produced only for type "OPTIONS" with
\* a present, non-empty options sequence; and for such an item whose text
\* is a string (or absent) and whose options are mappings, the content is
\* the text followed by "\n\nOptions:".
C20_SuffixIffOptions ==
    (Normalized /\ ItemReply) =>
        /\ (Get(FirstItem, "type", Null) # Str("OPTIONS") \/ NoOptions) =>
              /\ status # 500
              /\ content = BaseText
        /\ (status # 500 /\ content # BaseText) => HasOptions
        /\ (/\ HasOptions
            /\ BaseText.k = "str"
            /\ \A o \in Range(Get(FirstItem, "options", Null).l) : o.k = "dict") =>
              /\ status # 500
              /\ HasSuffix
              /\ content # BaseText

C20_Witness ==
    /\ Normalized
    /\ ItemReply
    /\ Get(FirstItem, "type", Null) = Str("OPTIONS")
    /\ Get(FirstItem, "options", Null) = List(<<>>)
    /\ ~HasKey(FirstItem, "text")
    /\ content = Str("No response text")


\* the normalisation has run for the request the observer recorded and for
\* the current one, on the same reply
NormalizedTwice ==
    /\ seen # NoSeen
    /\ "Normalize" \in Range(seen.stages)
    /\ "Normalize" \in Range(stages)

Twin ==
    /\ seen # NoSeen
    /\ req # NoRequest
    /\ [req EXCEPT !.x_ibm_thread_id = NoHeader]
          = [seen.req EXCEPT !.x_ibm_thread_id = NoHeader]

\* C16: of two /v1/chat requests that differ at most in the X-IBM-Thread-ID
\* header, the second sends the backend the query the first sent (or none
\* if the first sent none) and, given the reply the first got, ends with
\* the same status, detail, content, completion object and, when the
\* generator meets the same fault, the same frames (ids and timestamps
\* aside).
C16_ThreadHeaderHasNoEffect ==
    Twin =>
        /\ \A i \in 1..Len(backendCalls) :
              i <= Len(seen.backendCalls) /\ backendCalls[i] = seen.backendCalls[i]
        /\ pc = "done" =>
              /\ backendCalls = seen.backendCalls
              /\ stages = seen.stages
              /\ status = seen.status
              /\ detail = seen.detail
              /\ challenge = seen.challenge
              /\ content = seen.content
              /\ BodyShape(body) = seen.body
              /\ gen.raised_at = seen.raised_at =>
                    FrameShapes(frames) = seen.frames

C16_Witness ==
    /\ Twin
    /\ pc = "done"
    /\ seen.req.x_ibm_thread_id = NoHeader
    /\ req.x_ibm_thread_id = Header("t-1")
    /\ req.stream
    /\ backendCalls = <<[input |-> [text |-> "q2"]]>>
    /\ gen.raised_at = ""
    /\ Len(frames) = 3
    /\ FrameShapes(frames) = seen.frames
    /\ content = Str("Hello")


\* the request is over with one of the outcomes of the interface
TerminalOutcome == pc = "done" /\ status \in {200, 400, 401, 500}

\* the stream is over and its last frame is the sentinel
StreamEnded ==
    /\ pc = "done"
    /\ frames # <<>>
    /\ IsSentinel(frames[Len(frames)])

\* C21: every /v1/chat request that has been received eventually reaches a
\* terminal outcome (status 200, 401, 400 or 500), the backend call being
\* assumed to return or error; and a streaming response that has started
\* eventually emits its last frame, the sentinel, and ends.
C21_RequestsTerminate ==
    /\ (pc = "auth" /\ req.endpoint = "/v1/chat") ~> TerminalOutcome
    /\ (pc = "gen_start") ~> StreamEnded

C21_Witness ==
    /\ TerminalOutcome
    /\ StreamEnded
    /\ req.endpoint = "/v1/chat"
    /\ req.messages = <<[role |-> "user", content |-> "q1"],
                        [role |-> "assistant", content |-> "a1"],
                        [role |-> "user", content |-> "q2"]>>
    /\ response.kind = "Response"
    /\ gen.raised_at = ""
    /\ Len(frames) = 3

====
